---- MODULE Spec2Model ----
(***************************************************************************)
(* Model of main.py: the ingredient-disclosure PDF pipeline.               *)
(*                                                                         *)
(* Strings are sequences of one-character strings, so that the sanitizer,  *)
(* the validator and the link pattern work on characters as the Python     *)
(* code does.  The network, the browser and the file system are the        *)
(* environment: their outcomes are chosen nondeterministically.            *)
(***************************************************************************)
EXTENDS Integers, Sequences, FiniteSets, TLC

(***************************************************************************)
(* Characters and generic string helpers (Python str methods).             *)
(***************************************************************************)
Digits == {"0", "1", "2", "3", "4", "5", "6", "7", "8", "9"}

LowerSeq == << "a", "b", "c", "d", "e", "f", "g", "h", "i", "j", "k", "l", "m",
               "n", "o", "p", "q", "r", "s", "t", "u", "v", "w", "x", "y", "z" >>

UpperSeq == << "A", "B", "C", "D", "E", "F", "G", "H", "I", "J", "K", "L", "M",
               "N", "O", "P", "Q", "R", "S", "T", "U", "V", "W", "X", "Y", "Z" >>

LowerLetters == {LowerSeq[i] : i \in 1..Len(LowerSeq)}

UpperLetters == {UpperSeq[i] : i \in 1..Len(UpperSeq)}

\* urllib.parse.scheme_chars
SchemeChars == LowerLetters \cup UpperLetters \cup Digits \cup {"+", "-", "."}

\* the characters \s of the link pattern matches
Whitespace == {" ", "\t", "\n", "\r", "\f"}

\* urllib.parse._WHATWG_C0_CONTROL_OR_SPACE, as far as the alphabet goes
C0ControlOrSpace == {" ", "\t", "\n", "\r", "\f"}

\* urllib.parse._UNSAFE_URL_BYTES_TO_REMOVE
UnsafeUrlBytes == {"\t", "\r", "\n"}

SetMin(S) == CHOOSE x \in S : \A y \in S : x <= y

SetMax(S) == CHOOSE x \in S : \A y \in S : y <= x

\* str.lower() of one character
LowerChar(c) ==
    IF c \in UpperLetters
    THEN LowerSeq[CHOOSE i \in 1..Len(UpperSeq) : UpperSeq[i] = c]
    ELSE c

\* str.lower()
StrLower(s) == [i \in 1..Len(s) |-> LowerChar(s[i])]

\* s[from:] with a 1-based first index
Tail1(s, from) == IF from > Len(s) THEN << >> ELSE SubSeq(s, from, Len(s))

\* s[:upto] keeping the first upto characters
Head1(s, upto) == IF upto <= 0 THEN << >> ELSE SubSeq(s, 1, upto)

\* str.find(c, from): 1-based index of the first c at or after from, 0 if none
Find(s, c, from) ==
    LET hits == {i \in from..Len(s) : s[i] = c}
    IN  IF hits = {} THEN 0 ELSE SetMin(hits)

\* str.rfind(c): 1-based index of the last c, 0 if none
RFind(s, c) ==
    LET hits == {i \in 1..Len(s) : s[i] = c}
    IN  IF hits = {} THEN 0 ELSE SetMax(hits)

\* the text t carries the string p at position i
HasAt(t, i, p) ==
    /\ i >= 1
    /\ i + Len(p) - 1 <= Len(t)
    /\ \A j \in 1..Len(p) : t[i + j - 1] = p[j]

\* str.endswith
EndsWith(s, p) == Len(p) <= Len(s) /\ HasAt(s, Len(s) - Len(p) + 1, p)

\* str.lstrip(chars)
LStrip(s, chars) ==
    LET keep == {i \in 1..Len(s) : s[i] \notin chars}
    IN  IF keep = {} THEN << >> ELSE SubSeq(s, SetMin(keep), Len(s))

\* str.strip(chars)
Strip(s, chars) ==
    LET keep == {i \in 1..Len(s) : s[i] \notin chars}
    IN  IF keep = {} THEN << >> ELSE SubSeq(s, SetMin(keep), SetMax(keep))

\* str.replace(b, "") for every b of chars
RemoveChars(s, chars) == SelectSeq(s, LAMBDA c : c \notin chars)

\* the elements of s at the indices idx, in increasing index order
RECURSIVE PickIndices(_, _)
PickIndices(s, idx) ==
    IF idx = {} THEN << >>
    ELSE LET m == SetMin(idx) IN << s[m] >> \o PickIndices(s, idx \ {m})

\* "".join(parts)
RECURSIVE Join(_)
Join(parts) ==
    IF parts = << >> THEN << >> ELSE Head(parts) \o Join(Tail(parts))

(***************************************************************************)
(* The addresses of the model: links of the pages, and what the browser    *)
(* may report as the current address.                                      *)
(***************************************************************************)
Http == <<"h", "t", "t", "p">>

ColonSlashSlash == <<":", "/", "/">>

PdfProductId ==
    <<"/", "p", "d", "f", "/", "?", "p", "r", "o", "d", "u", "c", "t", "I", "D", "=">>

\* http://h/pdf/?productID=1
LinkA == Http \o ColonSlashSlash \o <<"h">> \o PdfProductId \o <<"1">>

\* https://h/pdf/?productID=2
LinkB == Http \o <<"s">> \o ColonSlashSlash \o <<"h">> \o PdfProductId \o <<"2">>

\* https://h/a.pdf
UrlA == Http \o <<"s">> \o ColonSlashSlash \o <<"h", "/", "a", ".", "p", "d", "f">>

\* http://g/A.PDF?x=1
UrlA2 == Http \o ColonSlashSlash
            \o <<"g", "/", "A", ".", "P", "D", "F", "?", "x", "=", "1">>

\* about:blank
UrlBlank == <<"a", "b", "o", "u", "t", ":", "b", "l", "a", "n", "k">>

\* chrome-error://chromewebdata/
UrlChromeError ==
    <<"c", "h", "r", "o", "m", "e", "-", "e", "r", "r", "o", "r">> \o ColonSlashSlash
        \o <<"c", "h", "r", "o", "m", "e", "w", "e", "b", "d", "a", "t", "a", "/">>

\* http://[/x
UrlBadBracket == Http \o ColonSlashSlash \o <<"[", "/", "x">>

\* what driver.current_url may report after the navigation
CurrentUrls == {UrlA, UrlA2, LinkA, LinkB, UrlBlank, UrlChromeError, UrlBadBracket}

(***************************************************************************)
(* urllib.parse.urlparse, as get_filename and is_url_valid call it.        *)
(***************************************************************************)
UsesParams == { << >>,
                <<"f", "t", "p">>, <<"h", "d", "l">>,
                <<"p", "r", "o", "s", "p", "e", "r", "o">>,
                <<"h", "t", "t", "p">>, <<"i", "m", "a", "p">>,
                <<"h", "t", "t", "p", "s">>, <<"s", "h", "t", "t", "p">>,
                <<"r", "t", "s", "p">>, <<"r", "t", "s", "p", "s">>,
                <<"r", "t", "s", "p", "u">>, <<"s", "i", "p">>,
                <<"s", "i", "p", "s">>, <<"m", "m", "s">>,
                <<"s", "f", "t", "p">>, <<"t", "e", "l">> }

\* bracketed hosts ipaddress accepts as IPv6, as far as the model's inputs go
ValidBracketedHosts == { <<":", ":", "1">> }

\* _check_bracketed_host raises ValueError
BracketedHostRaises(netloc) ==
    LET open  == Find(netloc, "[", 1)
        after == Tail1(netloc, open + 1)
        close == Find(after, "]", 1)
        host  == IF close = 0 THEN after ELSE Head1(after, close - 1)
    IN  IF Len(host) > 0 /\ host[1] = "v"
        THEN ~ ( /\ Len(host) >= 4
                 /\ \E d \in 3..(Len(host) - 1) :
                       /\ host[d] = "."
                       /\ \A j \in 2..(d - 1) :
                             host[j] \in Digits \cup {"a", "b", "c", "d", "e", "f",
                                                       "A", "B", "C", "D", "E", "F"} )
        ELSE host \notin ValidBracketedHosts

\* str.partition(c): the text before and after the first c
Partition(s, c) ==
    LET i == Find(s, c, 1)
    IN  IF i > 0
        THEN [found |-> TRUE, before |-> Head1(s, i - 1), after |-> Tail1(s, i + 1)]
        ELSE [found |-> FALSE, before |-> s, after |-> << >>]

\* urlsplit: the scheme, when the text before the first colon is one
SplitScheme(u0) ==
    LET colon == Find(u0, ":", 1)
    IN  IF /\ colon > 1
           /\ u0[1] \in LowerLetters \cup UpperLetters
           /\ \A j \in 1..(colon - 1) : u0[j] \in SchemeChars
        THEN [scheme |-> StrLower(Head1(u0, colon - 1)), rest |-> Tail1(u0, colon + 1)]
        ELSE [scheme |-> << >>, rest |-> u0]

\* urlsplit: _splitnetloc(url, 2) when url starts with //
SplitNetloc(u1) ==
    LET delims == {i \in 3..Len(u1) : u1[i] \in {"/", "?", "#"}}
        delim  == IF delims = {} THEN Len(u1) + 1 ELSE SetMin(delims)
    IN  IF HasAt(u1, 1, <<"/", "/">>)
        THEN [netloc |-> SubSeq(u1, 3, delim - 1), rest |-> Tail1(u1, delim)]
        ELSE [netloc |-> << >>, rest |-> u1]

\* urlsplit: the ValueErrors raised for the brackets of the netloc
NetlocRaises(netloc) ==
    LET hasO == Find(netloc, "[", 1) > 0
        hasC == Find(netloc, "]", 1) > 0
    IN  \/ hasO /\ ~hasC
        \/ hasC /\ ~hasO
        \/ hasO /\ hasC /\ BracketedHostRaises(netloc)

\* _splitparams: the index of the ; that starts the parameters, 0 if none
ParamsIndex(u4) ==
    LET slash == RFind(u4, "/")
    IN  IF slash > 0 THEN Find(u4, ";", slash) ELSE Find(u4, ";", 1)

\* urlparse: the parameters are split off the path for the schemes that have them
ParseParams(scheme, netloc, fragment, query, u4, semi) ==
    [raises   |-> NetlocRaises(netloc),
     scheme   |-> scheme,
     netloc   |-> netloc,
     path     |-> IF scheme \in UsesParams /\ semi > 0 THEN Head1(u4, semi - 1) ELSE u4,
     params   |-> IF scheme \in UsesParams /\ semi > 0 THEN Tail1(u4, semi + 1) ELSE << >>,
     query    |-> query,
     fragment |-> fragment]

\* urlsplit: the query is what follows the first ?
ParseQuery(scheme, netloc, fragment, q) ==
    ParseParams(scheme, netloc, fragment, q.after, q.before, ParamsIndex(q.before))

\* urlsplit: the fragment is what follows the first #
ParseFragment(scheme, netloc, f) ==
    ParseQuery(scheme, netloc, f.after, Partition(f.before, "?"))

ParseNetloc(scheme, n) == ParseFragment(scheme, n.netloc, Partition(n.rest, "#"))

ParseScheme(s) == ParseNetloc(s.scheme, SplitNetloc(s.rest))

\* urlsplit followed by urlparse's parameter split; raises marks a ValueError,
\* at the strings main has urlparse applied to: what the browser reports, as
\* is_url_valid gets it and in lower case as get_filename gets it.  These
\* values are computed once.
KnownParse ==
    [u \in CurrentUrls \cup {StrLower(c) : c \in CurrentUrls} \cup {<< >>} |->
        ParseScheme(SplitScheme(RemoveChars(LStrip(u, C0ControlOrSpace),
                                            UnsafeUrlBytes)))]

\* urlsplit followed by urlparse's parameter split; raises marks a ValueError
urlparse(url) ==
    IF url \in DOMAIN KnownParse THEN KnownParse[url]
    ELSE ParseScheme(SplitScheme(RemoveChars(LStrip(url, C0ControlOrSpace),
                                             UnsafeUrlBytes)))

\* os.path.basename
basename(p) == Tail1(p, RFind(p, "/") + 1)

\* mutant: p from its last dot on, whatever comes before that dot
splitext_ext_last_dot(p) ==
    IF RFind(p, ".") > RFind(p, "/") THEN Tail1(p, RFind(p, ".")) ELSE << >>

\* os.path.splitext(p)[1]: the extension with its dot, "" if there is none
splitext_ext(p) ==
    LET sepIndex == RFind(p, "/")
        dotIndex == RFind(p, ".")
    IN  IF /\ dotIndex > sepIndex
           /\ \E k \in (sepIndex + 1)..(dotIndex - 1) : p[k] # "."
        THEN Tail1(p, dotIndex)
        ELSE << >>

(***************************************************************************)
(* The pure functions of main.py.                                          *)
(***************************************************************************)
\* mutant: the basename of the whole URL, query string and fragment included
get_filename_whole(url) == basename(url)

get_filename(url) == basename(urlparse(url).path)

\* re.sub(r"[^a-z0-9]", "_", s)
SubNonAlnum(s) ==
    [i \in 1..Len(s) |->
        IF s[i] \in LowerLetters \cup Digits THEN s[i] ELSE "_"]

\* re.sub(r"_+", "_", s)
CollapseUnderscores(s) ==
    PickIndices(s, {i \in 1..Len(s) : ~(s[i] = "_" /\ i > 1 /\ s[i - 1] = "_")})

DotPdf == <<".", "p", "d", "f">>

UnderscorePdf == <<"_", "p", "d", "f">>

\* mutant: the _pdf at the end stays
StripPdfSuffix_keep(safe) == safe

\* if safe.endswith("_pdf"): safe = safe[:-4]
StripPdfSuffix(safe) ==
    IF EndsWith(safe, UnderscorePdf) THEN Head1(safe, Len(safe) - 4) ELSE safe

\* mutant: no default extension
ExtOrDefault_none(ext) == ext

\* if not ext: ext = ".pdf"
ExtOrDefault(ext) == IF ext = << >> THEN DotPdf ELSE ext

\* if not safe.endswith(".pdf"): safe += ext
AppendExt(safe, ext) == IF ~EndsWith(safe, DotPdf) THEN safe \o ext ELSE safe

\* url_to_filename from the lowercased basename on
SanitizeBasename(lower) ==
    AppendExt(StripPdfSuffix(Strip(CollapseUnderscores(SubNonAlnum(lower)), {"_"})),
              ExtOrDefault(splitext_ext(lower)))

\* url_to_filename at the addresses the browser may report, computed once
KnownFilenames ==
    [u \in CurrentUrls |-> SanitizeBasename(get_filename(StrLower(u)))]

url_to_filename(raw_url) ==
    IF raw_url \in DOMAIN KnownFilenames THEN KnownFilenames[raw_url]
    ELSE SanitizeBasename(get_filename(StrLower(raw_url)))

\* urlparse raising inside url_to_filename (no handler there)
url_to_filename_raises(raw_url) == urlparse(StrLower(raw_url)).raises

\* mutant: the last occurrence of each element is kept instead of the first
remove_duplicates_keep_last(seq) ==
    PickIndices(seq, {i \in 1..Len(seq) : \A j \in (i + 1)..Len(seq) : seq[j] # seq[i]})

\* mutant: nothing is removed
remove_duplicates_none(seq) == seq

remove_duplicates(seq) ==
    PickIndices(seq, {i \in 1..Len(seq) : \A j \in 1..(i - 1) : seq[j] # seq[i]})

\* mutant: any([result.scheme, result.netloc])
BothPresent_any(result) ==
    IF result.raises THEN FALSE
    ELSE result.scheme # << >> \/ result.netloc # << >>

\* all([result.scheme, result.netloc]), False when urlparse raised
BothPresent(result) ==
    IF result.raises THEN FALSE
    ELSE result.scheme # << >> /\ result.netloc # << >>

is_url_valid(url) == BothPresent(urlparse(url))

(***************************************************************************)
(* The link pattern  https?://[^\s'\"]+/pdf/\?productID=\d+                *)
(***************************************************************************)
\* characters outside the class [^\s'\"]
ClassStop == Whitespace \cup {"'", "\""}

\* the first index from c0 on that ends the run of class characters
ClassEnd(t, c0) ==
    LET stops == {e \in c0..Len(t) : t[e] \in ClassStop}
    IN  IF stops = {} THEN Len(t) + 1 ELSE SetMin(stops)

\* mutant: \d+ takes one digit
DigitsEnd_one(t, d0) == d0

\* \d+ from d0 on is greedy: the index of the last digit of the run
DigitsEnd(t, d0) ==
    LET nond == {e \in d0..Len(t) : t[e] \notin Digits}
    IN  IF nond = {} THEN Len(t) ELSE SetMin(nond) - 1

\* the class is greedy: of the places ks where /pdf/?productID= and a digit
\* follow class characters, the last one is taken
MatchLiteral(t, ks) ==
    IF ks = {} THEN 0 ELSE DigitsEnd(t, SetMax(ks) + Len(PdfProductId))

\* [^\s'\"]+ from c0 on, running up to stop, then the literal and a digit
MatchClass(t, c0, stop) ==
    MatchLiteral(t, {k \in (c0 + 1)..(stop - 1) :
                        /\ HasAt(t, k, PdfProductId)
                        /\ k + Len(PdfProductId) <= Len(t)
                        /\ t[k + Len(PdfProductId)] \in Digits})

\* :// at j1, then the rest of the pattern
MatchAfterScheme(t, j1) ==
    IF ~HasAt(t, j1, ColonSlashSlash) THEN 0
    ELSE MatchClass(t, j1 + 3, ClassEnd(t, j1 + 3))

\* the index of the last character of the match that starts at i, 0 if none
MatchEnd(t, i) ==
    IF ~HasAt(t, i, Http) THEN 0
    ELSE MatchAfterScheme(t, IF HasAt(t, i + 4, <<"s">>) THEN i + 5 ELSE i + 4)

\* pattern.findall(html): the non-overlapping matches, left to right
RECURSIVE FindAllFrom(_, _)
FindAllTake(t, s, e) == << SubSeq(t, s, e) >> \o FindAllFrom(t, e + 1)

FindAllNext(t, starts) ==
    IF starts = {} THEN << >>
    ELSE FindAllTake(t, SetMin(starts), MatchEnd(t, SetMin(starts)))

FindAllFrom(t, i) == FindAllNext(t, {s \in i..Len(t) : MatchEnd(t, s) > 0})

extract_pdf_urls(html) == FindAllFrom(html, 1)

(***************************************************************************)
(* Inputs: the seed list, what the servers and the browser may answer.     *)
(***************************************************************************)
\* number of entries of the seed list that are modelled
NumSeeds == 2

\* the seed list by entry number; as in the source, the entry before the last
\* repeats the first one
remote_api_urls == [i \in 1..NumSeeds |-> IF i = NumSeeds - 1 THEN 1 ELSE i]

Quote == << "\"" >>

\* "A""B""A": a page that carries a link twice
PageABA == Quote \o LinkA \o Quote \o Quote \o LinkB \o Quote \o Quote \o LinkA \o Quote

\* a page that ends in a link, with nothing after the digits
PageBareB == LinkB

\* a page that starts with a digit: 3 "A"
PageDigitA == <<"3", " ">> \o Quote \o LinkA \o Quote

\* a page without any link
PageNone == <<"<", "p", ">">>

PageBodies == {PageABA, PageBareB, PageDigitA, PageNone}

\* what requests.get / raise_for_status may give for a seed page: a body with
\* a success status, a network error (no body), or an error status whose
\* error page has a body of its own
FetchOutcomes ==
    [ok : {TRUE}, body : PageBodies]
        \cup {[ok |-> FALSE, body |-> << >>], [ok |-> FALSE, body |-> PageABA]}

\* the ways one get_final_url call may go: Chrome() raises, the call that
\* sets the page-load timeout raises, the navigation (or reading the
\* address) raises, or the address is read
ResolveOutcomes ==
    [kind : {"start_raises", "timeout_raises", "nav_raises"}, url : {<< >>}]
        \cup [kind : {"ok"}, url : CurrentUrls]

CtPdf == <<"a", "p", "p", "l", "i", "c", "a", "t", "i", "o", "n", "/", "p", "d", "f">>

CtHtml == <<"t", "e", "x", "t", "/", "h", "t", "m", "l", ";", " ",
            "c", "h", "a", "r", "s", "e", "t", "=", "u", "t", "f", "-", "8">>

CtPng == <<"i", "m", "a", "g", "e", "/", "p", "n", "g">>

ApplicationPdf == CtPdf

TextHtml == <<"t", "e", "x", "t", "/", "h", "t", "m", "l">>

\* what the streaming GET of download_pdf may give: the request raises, the
\* status is not a success, or a success with a Content-Type header (the
\* empty string when the header is missing) whose body may fail to stream
NoOutcome == [raises |-> FALSE, status_ok |-> FALSE, content_type |-> << >>,
              stream_fails |-> FALSE]

DownloadOutcomes ==
    { [raises |-> TRUE, status_ok |-> FALSE, content_type |-> << >>,
       stream_fails |-> FALSE],
      [raises |-> FALSE, status_ok |-> FALSE, content_type |-> CtPdf,
       stream_fails |-> FALSE] }
    \cup [raises : {FALSE}, status_ok : {TRUE},
          content_type : {CtPdf, CtHtml, CtPng, << >>}, stream_fails : {FALSE}]
    \cup { [raises |-> FALSE, status_ok |-> TRUE, content_type |-> CtPdf,
            stream_fails |-> TRUE] }

\* a file left in the output directory by an earlier run
EarlierFile == [by |-> << >>, complete |-> TRUE]

\* the output directory with no file in it
NoFiles == [n \in {} |-> EarlierFile]

\* what an existing output directory may hold when the run starts
InitialDirs == { NoFiles, (url_to_filename(UrlA) :> EarlierFile) }

(***************************************************************************)
(* download_pdf and get_data_from_url as functions of the environment's    *)
(* answer.                                                                 *)
(***************************************************************************)
\* sub in s
Contains(s, sub) == \E i \in 1..(Len(s) - Len(sub) + 1) : HasAt(s, i, sub)

\* mutant: the test written as  "application/pdf" or "text/html" in content_type,
\* which is true of every header
ContentTypeAccepted_always(content_type) == TRUE

\* the test of the Content-Type header in download_pdf
ContentTypeAccepted(content_type) ==
    Contains(content_type, ApplicationPdf) \/ Contains(content_type, TextHtml)

\* mutant: the existence check never finds the file
file_exists_never(fs, filename) == FALSE

\* file_exists(Path(output_dir) / filename), fs being the files of output_dir
file_exists(fs, filename) == filename \in DOMAIN fs

\* the file that open(filepath, "wb") and the streaming loop leave
WrittenFile(final_url, done) == [by |-> final_url, complete |-> done]

\* mutant: the file is written although its directory is missing
DownloadTo_dir_ignored(final_url, filename, dirOk, fs, o) ==
    IF file_exists(fs, filename)
    THEN [ret |-> FALSE, get |-> FALSE, opened |-> FALSE, files |-> fs]
    ELSE IF \/ o.raises
            \/ ~o.status_ok
            \/ ~ContentTypeAccepted(o.content_type)
    THEN [ret |-> FALSE, get |-> TRUE, opened |-> FALSE, files |-> fs]
    ELSE [ret |-> ~o.stream_fails, get |-> TRUE, opened |-> TRUE,
          files |-> [n \in DOMAIN fs \cup {filename} |->
                       IF n = filename
                       THEN WrittenFile(final_url, ~o.stream_fails)
                       ELSE fs[n]]]

\* mutant: the GET is issued before the existence check
DownloadTo_get_first(final_url, filename, dirOk, fs, o) ==
    IF file_exists(fs, filename)
    THEN [ret |-> FALSE, get |-> TRUE, opened |-> FALSE, files |-> fs]
    ELSE IF \/ o.raises
            \/ ~o.status_ok
            \/ ~ContentTypeAccepted(o.content_type)
            \/ ~dirOk
    THEN [ret |-> FALSE, get |-> TRUE, opened |-> FALSE, files |-> fs]
    ELSE [ret |-> ~o.stream_fails, get |-> TRUE, opened |-> TRUE,
          files |-> [n \in DOMAIN fs \cup {filename} |->
                       IF n = filename
                       THEN WrittenFile(final_url, ~o.stream_fails)
                       ELSE fs[n]]]

\* mutant: resp.raise_for_status() is missing, an error page is saved
DownloadTo_no_status_check(final_url, filename, dirOk, fs, o) ==
    IF file_exists(fs, filename)
    THEN [ret |-> FALSE, get |-> FALSE, opened |-> FALSE, files |-> fs]
    ELSE IF \/ o.raises
            \/ ~ContentTypeAccepted(o.content_type)
            \/ ~dirOk
    THEN [ret |-> FALSE, get |-> TRUE, opened |-> FALSE, files |-> fs]
    ELSE [ret |-> ~o.stream_fails, get |-> TRUE, opened |-> TRUE,
          files |-> [n \in DOMAIN fs \cup {filename} |->
                       IF n = filename
                       THEN WrittenFile(final_url, ~o.stream_fails)
                       ELSE fs[n]]]

\* download_pdf from the existence check on, filename being the name computed
DownloadTo(final_url, filename, dirOk, fs, o) ==
    IF file_exists(fs, filename)
    THEN [ret |-> FALSE, get |-> FALSE, opened |-> FALSE, files |-> fs]
    ELSE IF \/ o.raises
            \/ ~o.status_ok
            \/ ~ContentTypeAccepted(o.content_type)
            \/ ~dirOk
    THEN [ret |-> FALSE, get |-> TRUE, opened |-> FALSE, files |-> fs]
    ELSE [ret |-> ~o.stream_fails, get |-> TRUE, opened |-> TRUE,
          files |-> [n \in DOMAIN fs \cup {filename} |->
                       IF n = filename
                       THEN WrittenFile(final_url, ~o.stream_fails)
                       ELSE fs[n]]]

\* download_pdf(final_url, output_dir) when the GET, if one is issued, goes
\* as o says; dirOk: output_dir exists, fs: its files.  get: a GET was issued,
\* opened: open(filepath, "wb") created the file, ret: the return value
download_pdf(final_url, dirOk, fs, o) ==
    DownloadTo(final_url, url_to_filename(final_url), dirOk, fs, o)

\* mutant: resp.raise_for_status() is missing, the error page is returned
get_data_from_url_no_status_check(o) == o.body

\* get_data_from_url(uri) when the GET goes as o says
get_data_from_url(o) == IF o.ok THEN o.body ELSE << >>

(***************************************************************************)
(* The run of main().                                                      *)
(***************************************************************************)
VARIABLES
    pc,             \* where main is: mkdir, fetch, extract, dedup, resolve,
                    \* validate, download, done, crashed (an exception left main)
    dir_exists,     \* the output directory exists
    files,          \* the files of the output directory, by name
    responses,      \* what the server answered to each seed fetch so far
    get_data,       \* main's get_data: the page bodies collected so far
    final_pdf_list, \* main's final_pdf_list
    link,           \* index in final_pdf_list of the link Phase C is at
    resolved_url,   \* main's resolved_url
    sessions_alive, \* browser sessions created and not quit
    dl_last,        \* the last download_pdf call, NoCall before the first
    dl_prev,        \* the download_pdf call before that, in brief
    resolutions,    \* get_final_url calls made so far
    sessions_started, \* browser sessions created so far
    navigations,    \* driver.get calls made so far
    gets,           \* GET requests download_pdf issued so far
    downloads,      \* download_pdf calls made so far
    successes,      \* download_pdf calls that returned True so far
    writes,         \* by filename, how often the run opened the file for writing
    called,         \* the function applied on its own, "main" in a run of main
    arg,            \* the string the function is applied to
    result          \* what the call gave: the value returned, or that it raised

\* what the download_pdf calls of the run leave behind them
tally == << downloads, successes, writes, gets >>

\* what the get_final_url calls of the run leave behind them
browser == << resolutions, sessions_started, navigations >>

\* a function of the module applied on its own
applied == << called, arg, result >>

\* the run of main
run == << pc, dir_exists, files, responses, get_data, final_pdf_list, link,
          resolved_url, sessions_alive, dl_last, dl_prev, browser, tally >>

vars == << run, applied >>

\* nothing was returned
NoResult == [raised |-> FALSE, value |-> << >>]

NoCall == [called |-> FALSE, url |-> << >>, filename |-> << >>, before |-> NoFiles,
           outcome |-> NoOutcome, ret |-> FALSE, get |-> FALSE, opened |-> FALSE]

\* what is kept of a call once another call has followed it
Brief(r) == [called |-> r.called, url |-> r.url, get |-> r.get,
             opened |-> r.opened, ret |-> r.ret]

Init ==
    /\ pc = "mkdir"
    /\ dir_exists \in BOOLEAN
    /\ files \in (IF dir_exists THEN InitialDirs ELSE {NoFiles})
    /\ responses = << >>
    /\ get_data = << >>
    /\ final_pdf_list = << >>
    /\ link = 0
    /\ resolved_url = << >>
    /\ sessions_alive = 0
    /\ dl_last = NoCall
    /\ dl_prev = Brief(NoCall)
    /\ resolutions = 0
    /\ sessions_started = 0
    /\ navigations = 0
    /\ gets = 0
    /\ downloads = 0
    /\ successes = 0
    /\ writes = << >>
    /\ called = "main"
    /\ arg = << >>
    /\ result = NoResult

\* if not directory_exists(output_dir): create_directory(output_dir); an
\* exception of os.makedirs is caught and printed
CreateDirectory ==
    /\ pc = "mkdir"
    /\ \E created \in BOOLEAN : dir_exists' = (dir_exists \/ created)
    /\ pc' = IF NumSeeds = 0 THEN "extract" ELSE "fetch"
    /\ UNCHANGED << files, responses, get_data, final_pdf_list, link,
                    resolved_url, sessions_alive, dl_last, dl_prev, browser,
                    tally >>
    /\ UNCHANGED applied

\* Phase A, one iteration: html = get_data_from_url(url); get_data.append(html)
FetchPage ==
    /\ pc = "fetch"
    /\ Len(get_data) < Len(remote_api_urls)
    /\ \E o \in FetchOutcomes :
          /\ responses' = Append(responses, o)
          /\ get_data' = Append(get_data, get_data_from_url(o))
    /\ pc' = IF Len(get_data) + 1 = Len(remote_api_urls) THEN "extract" ELSE "fetch"
    /\ UNCHANGED << dir_exists, files, final_pdf_list, link, resolved_url,
                    sessions_alive, dl_last, dl_prev, browser, tally >>
    /\ UNCHANGED applied

\* Phase B: final_pdf_list = extract_pdf_urls("".join(get_data))
ExtractLinks ==
    /\ pc = "extract"
    /\ final_pdf_list' = extract_pdf_urls(Join(get_data))
    /\ pc' = "dedup"
    /\ UNCHANGED << dir_exists, files, responses, get_data, link, resolved_url,
                    sessions_alive, dl_last, dl_prev, browser, tally >>
    /\ UNCHANGED applied

\* mutant: the loop body runs once although the list is empty
NextLink_once(list, n) == IF n < Len(list) \/ n = 0 THEN "resolve" ELSE "done"

\* mutant: after the last link main starts over with Phase A
NextLink_back(list, n) == IF n < Len(list) THEN "resolve" ELSE "fetch"

\* where the for loop of Phase C goes after the link at index n of list
NextLink(list, n) == IF n < Len(list) THEN "resolve" ELSE "done"

\* Phase B: final_pdf_list = remove_duplicates(final_pdf_list), then the
\* for loop of Phase C is entered
Deduplicate ==
    /\ pc = "dedup"
    /\ final_pdf_list' = remove_duplicates(final_pdf_list)
    /\ link' = IF final_pdf_list' = << >> THEN 0 ELSE 1
    /\ pc' = NextLink(final_pdf_list', 0)
    /\ UNCHANGED << dir_exists, files, responses, get_data, resolved_url,
                    sessions_alive, dl_last, dl_prev, browser, tally >>
    /\ UNCHANGED applied

\* the sessions left alive by one get_final_url call that goes as o says:
\* Chrome() creates the session, set_page_load_timeout is called before the
\* try, and driver.quit() runs in the finally of the try
SessionsLeaked(o) == IF o.kind = "timeout_raises" THEN 1 ELSE 0

\* the sessions one get_final_url call creates: none when Chrome() raises
SessionsStarted(o) == IF o.kind = "start_raises" THEN 0 ELSE 1

\* the driver.get calls one get_final_url call makes: none when it raised
\* before the try
Navigations(o) == IF o.kind \in {"nav_raises", "ok"} THEN 1 ELSE 0

\* get_final_url raises to its caller
GetFinalUrlRaises(o) == o.kind \in {"start_raises", "timeout_raises"}

\* the value get_final_url returns when it returns
get_final_url(o) == IF o.kind = "ok" THEN o.url ELSE << >>

\* Phase C: resolved_url = get_final_url(pdf_url)
ResolveLink ==
    /\ pc = "resolve"
    /\ \E o \in ResolveOutcomes :
          /\ sessions_alive' = sessions_alive + SessionsLeaked(o)
          /\ resolutions' = resolutions + 1
          /\ sessions_started' = sessions_started + SessionsStarted(o)
          /\ navigations' = navigations + Navigations(o)
          /\ IF GetFinalUrlRaises(o)
             THEN pc' = "crashed" /\ UNCHANGED resolved_url
             ELSE pc' = "validate" /\ resolved_url' = get_final_url(o)
    /\ UNCHANGED << dir_exists, files, responses, get_data, final_pdf_list, link,
                    dl_last, dl_prev, tally >>
    /\ UNCHANGED applied

\* mutant: main tests  if resolved_url:  instead of validating it
PassesValidation_nonempty(url) == url # << >>

\* mutant: main hands every resolved URL to download_pdf
PassesValidation_always(url) == TRUE

\* the test main makes before download_pdf: if is_url_valid(url=resolved_url)
PassesValidation(url) == is_url_valid(url)

\* Phase C: if is_url_valid(resolved_url): ...
ValidateUrl ==
    /\ pc = "validate"
    /\ IF PassesValidation(resolved_url)
       THEN pc' = "download" /\ UNCHANGED link
       ELSE pc' = NextLink(final_pdf_list, link) /\ link' = link + 1
    /\ UNCHANGED << dir_exists, files, responses, get_data, final_pdf_list,
                    resolved_url, sessions_alive, dl_last, dl_prev, browser,
                    tally >>
    /\ UNCHANGED applied

\* the record kept of one download_pdf call that went as o says, r being
\* what it did
CallRecord(url, fs, o, r) ==
    [called |-> TRUE, url |-> url, filename |-> url_to_filename(url), before |-> fs,
     outcome |-> IF r.get THEN o ELSE NoOutcome,
     ret |-> r.ret, get |-> r.get, opened |-> r.opened]

\* the number of times filename was opened for writing, one more if the
\* call just made opened it
Written(w, filename, opened) ==
    [n \in DOMAIN w \cup {filename} |->
        (IF n \in DOMAIN w THEN w[n] ELSE 0) + (IF n = filename /\ opened THEN 1 ELSE 0)]

\* the state after the download_pdf call r
Downloaded(o, r) ==
    /\ files' = r.files
    /\ downloads' = downloads + 1
    /\ gets' = gets + (IF r.get THEN 1 ELSE 0)
    /\ successes' = successes + (IF r.ret THEN 1 ELSE 0)
    /\ writes' = Written(writes, url_to_filename(resolved_url), r.opened)
    /\ dl_prev' = Brief(dl_last)
    /\ dl_last' = CallRecord(resolved_url, files, o, r)
    /\ pc' = NextLink(final_pdf_list, link)
    /\ link' = link + 1

\* Phase C: download_pdf(resolved_url, output_dir); url_to_filename is called
\* outside the try of download_pdf
DownloadPdf ==
    /\ pc = "download"
    /\ IF url_to_filename_raises(resolved_url)
       THEN /\ pc' = "crashed"
            /\ UNCHANGED << files, link, dl_last, dl_prev, tally >>
       ELSE \E o \in DownloadOutcomes :
               Downloaded(o, download_pdf(resolved_url, dir_exists, files, o))
    /\ UNCHANGED << dir_exists, responses, get_data, final_pdf_list, resolved_url,
                    sessions_alive, browser >>
    /\ UNCHANGED applied

Next ==
    \/ CreateDirectory
    \/ FetchPage
    \/ ExtractLinks
    \/ Deduplicate
    \/ ResolveLink
    \/ ValidateUrl
    \/ DownloadPdf

Spec == Init /\ [][Next]_vars

\* where main may be
Positions ==
    {"mkdir", "fetch", "extract", "dedup", "resolve", "validate", "download",
     "done", "crashed"}

\* main has not ended
Running == pc \notin {"done", "crashed"}

\* main leaves the position it is at
Advance == Running /\ pc' \in Positions

\* every blocking call returns or times out, so main does not stay for
\* ever at a position it can leave
FairSpec == Spec /\ WF_pc(Advance)

(***************************************************************************)
(* The functions applied on their own, each to one string.                 *)
(***************************************************************************)
\* the longest basename is made of this many pieces
MaxNameParts == 3

\* the longest text is made of this many pieces
MaxTextParts == 4

\* the strings made of at most n of the pieces
RECURSIVE Concats(_, _)
Concats(pieces, n) ==
    IF n = 0 THEN {<< >>}
    ELSE {<< >>} \cup {p \o t : p \in pieces, t \in Concats(pieces, n - 1)}

\* what the basename of a URL is made of
NamePieces ==
    { <<"x">>, <<"P">>, <<".">>, <<"_">>,
      <<"-", "p", "d", "f">>, <<"_", "p", "d", "f">>, <<".", "p", "d", "f">> }

\* what comes before the basename: nothing, a host alone, a host and the
\* root, a host and a directory, a host with an unbalanced bracket
UrlPrefixes ==
    { << >>,
      <<"h", "t", "t", "p", ":", "/", "/", "h">>,
      <<"h", "t", "t", "p", ":", "/", "/", "h", "/">>,
      <<"H", "t", "t", "p", "s", ":", "/", "/", "g", "/", "d", ".", "e", "/">>,
      <<"h", "t", "t", "p", ":", "/", "/", "[", "/">> }

\* what comes after the basename: nothing, parameters, a query
UrlSuffixes ==
    { << >>,
      <<";", "v", ".", "1">>,
      <<"?", "a", ".", "b", "=", "1">> }

\* the URLs with such a basename
UrlsOf(names) == {p \o n \o s : p \in UrlPrefixes, n \in names, s \in UrlSuffixes}

ExampleUrl ==
    <<"h", "t", "t", "p", "s", ":", "/", "/", "e", "x", "a", "m", "p", "l", "e",
      ".", "c", "o", "m", "/", "x">>

NotAUrl == <<"n", "o", "t", " ", "a", " ", "u", "r", "l">>

\* a host and no scheme
UrlNoScheme == <<"/", "/", "h", "/", "x">>

\* the strings url_to_filename and is_url_valid are applied to
UrlInputs ==
    UrlsOf(Concats(NamePieces, MaxNameParts))
        \cup {ExampleUrl, NotAUrl, UrlNoScheme, UrlBlank, UrlChromeError}

\* what a page text is made of
TextPieces ==
    { LinkA,
      <<"h", "t", "t", "p", "s", ":", "/", "/", "h">>,
      PdfProductId,
      <<"2">>, <<" ">>, <<"'">>, Quote, <<"x">> }

\* the strings extract_pdf_urls is applied to
TextInputs == Concats(TextPieces, MaxTextParts)

\* main() is not running while a function is applied on its own
InitFunctions ==
    /\ pc = "idle"
    /\ dir_exists = FALSE
    /\ files = NoFiles
    /\ responses = << >>
    /\ get_data = << >>
    /\ final_pdf_list = << >>
    /\ link = 0
    /\ resolved_url = << >>
    /\ sessions_alive = 0
    /\ dl_last = NoCall
    /\ dl_prev = Brief(NoCall)
    /\ resolutions = 0
    /\ sessions_started = 0
    /\ navigations = 0
    /\ gets = 0
    /\ downloads = 0
    /\ successes = 0
    /\ writes = << >>
    /\ called = "nothing"
    /\ arg \in UrlInputs \cup TextInputs
    /\ result = NoResult

\* what a call that returns v gives
Returned(v) == [raised |-> FALSE, value |-> v]

\* what a call that raises gives
Raised == [raised |-> TRUE, value |-> << >>]

\* url_to_filename(arg): the ValueError of urlparse is not handled
UrlToFilename ==
    /\ called = "nothing"
    /\ arg \in UrlInputs
    /\ called' = "url_to_filename"
    /\ result' = IF url_to_filename_raises(arg) THEN Raised
                 ELSE Returned(url_to_filename(arg))
    /\ UNCHANGED << arg, run >>

\* is_url_valid(arg)
IsUrlValid ==
    /\ called = "nothing"
    /\ arg \in UrlInputs
    /\ called' = "is_url_valid"
    /\ result' = Returned(is_url_valid(arg))
    /\ UNCHANGED << arg, run >>

\* extract_pdf_urls(arg)
ExtractPdfUrls ==
    /\ called = "nothing"
    /\ arg \in TextInputs
    /\ called' = "extract_pdf_urls"
    /\ result' = Returned(extract_pdf_urls(arg))
    /\ UNCHANGED << arg, run >>

NextFunctions ==
    \/ UrlToFilename
    \/ IsUrlValid
    \/ ExtractPdfUrls

SpecFunctions == InitFunctions /\ [][NextFunctions]_vars

\* the program as a whole: a run of main(), or one of its functions applied
\* on its own
InitAll == Init \/ InitFunctions

NextAll == Next \/ NextFunctions

SpecAll == InitAll /\ [][NextAll]_vars

(***************************************************************************)
(* Helpers of the properties.                                              *)
(***************************************************************************)
Range(seq) == {seq[i] : i \in 1..Len(seq)}

\* how many entries of seq are x
Occurrences(seq, x) == Cardinality({i \in 1..Len(seq) : seq[i] = x})

\* the index of the first x in seq
FirstIndex(seq, x) == SetMin({i \in 1..Len(seq) : seq[i] = x})

\* the bodies of the pages whose fetch succeeded, joined in fetch order
RECURSIVE JoinOk(_)
JoinOk(rs) ==
    IF rs = << >> THEN << >>
    ELSE (IF Head(rs).ok THEN Head(rs).body ELSE << >>) \o JoinOk(Tail(rs))

\* the last two download_pdf calls had the same arguments
SameCallTwice == dl_prev.called /\ dl_last.called /\ dl_prev.url = dl_last.url

\* the last download_pdf call was a skip: no GET, nothing written, False
LastWasSkip ==
    /\ ~dl_last.get
    /\ ~dl_last.opened
    /\ ~dl_last.ret
    /\ files = dl_last.before

\* Phase C has been entered
InPhaseC == pc \in {"resolve", "validate", "download"}

(***************************************************************************)
(* C1: download_pdf called twice in a row with the same URL and directory. *)
(***************************************************************************)
\* C1 as claimed: whenever download_pdf is called twice in a row with the
\* same arguments, exactly one file is written in total (by the first call)
\* and the second call is a skip without a GET.
C1_TwiceWritesOnce ==
    SameCallTwice => (dl_prev.opened /\ LastWasSkip)

\* C1 amended: when the first of two download_pdf calls in a row with the same
\* arguments created the file, the second call is a skip (no GET, returns
\* False) and nothing more is written, so one file is written in total.
C1_SecondCallSkips ==
    (SameCallTwice /\ dl_prev.opened) => LastWasSkip

\* two calls in a row for one URL, the first of which downloaded the file
C1_Witness ==
    /\ SameCallTwice
    /\ dl_prev.ret
    /\ dl_prev.opened
    /\ ~dl_last.get

(***************************************************************************)
(* C2: at most one download per filename.                                  *)
(***************************************************************************)
\* C2: when the file of the called URL's filename was created by the download
\* of a different URL with the same filename, the call is skipped: no GET,
\* nothing written, False returned.
C2_AtMostOncePerFilename ==
    dl_last.called =>
        \A n \in DOMAIN dl_last.before :
            LET u1 == dl_last.before[n].by
            IN  ( /\ u1 # << >>
                  /\ u1 # dl_last.url
                  /\ url_to_filename(u1) = url_to_filename(dl_last.url) )
                => LastWasSkip

\* http://g/A.PDF?x=1 is skipped because https://h/a.pdf created a.pdf
C2_Witness ==
    /\ dl_last.called
    /\ dl_last.url = UrlA2
    /\ dl_last.filename \in DOMAIN dl_last.before
    /\ dl_last.before[dl_last.filename].by = UrlA
    /\ LastWasSkip

(***************************************************************************)
(* C3: the Content-Type gate.                                              *)
(***************************************************************************)
\* the header values the claim lets through
C3_Allowed(content_type) ==
    Contains(content_type, CtPdf) \/ Contains(content_type, TextHtml)

C4_FailedGetWritesNothing ==
    (dl_last.called /\ dl_last.get
        /\ (dl_last.outcome.raises \/ ~dl_last.outcome.status_ok)) =>
        /\ ~dl_last.ret
        /\ ~dl_last.opened
        /\ files = dl_last.before

\* a GET answered with an error status
C4_Witness ==
    /\ dl_last.called
    /\ dl_last.get
    /\ ~dl_last.outcome.raises
    /\ ~dl_last.outcome.status_ok
    /\ dl_last.filename \notin DOMAIN files

(***************************************************************************)
(* C5: an exception while one link is processed.                           *)
(***************************************************************************)
\* C5 as claimed: no exception raised while a candidate link is processed
\* ends the Phase C loop while later links are still to be resolved.
C5_LoopSurvivesExceptions ==
    ~(pc = "crashed" /\ link < Len(final_pdf_list))

(***************************************************************************)
(* C6: browser teardown.                                                   *)
(***************************************************************************)
\* C6 as claimed: whenever get_final_url is not running, every session it
\* created has been quit.
C6_NoSessionLeft == sessions_alive = 0

(***************************************************************************)
(* C7: a failed page fetch.                                                *)
(***************************************************************************)
\* C7: a failed fetch gives the empty string, Phase A goes on to the end of
\* the seed list, and the text that is scanned is made of the bodies of the
\* successful fetches only.
C7_FetchFailureNonFatal ==
    /\ Len(get_data) = Len(responses)
    /\ \A i \in 1..Len(get_data) : ~responses[i].ok => get_data[i] = << >>
    /\ Len(get_data) < Len(remote_api_urls) => pc \in {"mkdir", "fetch"}
    /\ pc = "dedup" => final_pdf_list = extract_pdf_urls(JoinOk(responses))

\* a fetch failed with an error page that carries links, a later fetch
\* succeeded, and the extraction has run
C7_Witness ==
    /\ pc = "dedup"
    /\ \E i \in 1..Len(responses) :
          /\ ~responses[i].ok
          /\ responses[i].body # << >>
          /\ \E j \in (i + 1)..Len(responses) : responses[j].ok
    /\ final_pdf_list # << >>

(***************************************************************************)
(* C8: no download without validation.                                     *)
(***************************************************************************)
\* C8: download_pdf is called only with a resolved URL that is_url_valid
\* accepts; for a link whose resolved URL is empty or malformed no download
\* is attempted and the loop goes to the next link.
C8_DownloadOnlyIfValid ==
    /\ [](pc = "download" => is_url_valid(resolved_url))
    /\ [](dl_last.called => is_url_valid(dl_last.url))
    /\ [][(pc = "validate" /\ ~is_url_valid(resolved_url)) =>
             /\ pc' = NextLink(final_pdf_list, link)
             /\ link' = link + 1
             /\ UNCHANGED << files, dl_last, dl_prev >>]_vars

\* the first link resolved to nothing valid and the loop is at the second
C8_Witness ==
    /\ pc = "resolve"
    /\ link = 2
    /\ ~is_url_valid(resolved_url)
    /\ ~dl_last.called

C10_FirstSeenOrder(f, m) ==
    /\ \A i, j \in 1..Len(f) : i # j => f[i] # f[j]
    /\ Range(f) = Range(m)
    /\ \A i, j \in 1..Len(f) : i < j => FirstIndex(m, f[i]) < FirstIndex(m, f[j])

\* C10: the list Phase C iterates over has no duplicates, holds exactly the
\* strings the pattern matches in the joined page bodies, in the order of
\* their first occurrence, and stays as it is throughout Phase C.
C10_CandidateList ==
    /\ []((pc = "resolve" /\ link = 1) =>
             C10_FirstSeenOrder(final_pdf_list, extract_pdf_urls(Join(get_data))))
    /\ []((pc = "done" /\ link = 0) => extract_pdf_urls(Join(get_data)) = << >>)
    /\ [][InPhaseC => (final_pdf_list' = final_pdf_list /\ get_data' = get_data)]_vars

\* Phase C starts on two candidate links left of four matches
C10_Witness ==
    /\ pc = "resolve"
    /\ link = 1
    /\ Len(final_pdf_list) = 2
    /\ Len(extract_pdf_urls(Join(get_data))) = 4

(***************************************************************************)
(* C11: one link on two seed pages, from the fetch to the file.            *)
(***************************************************************************)
\* no file of the output directory was there before the run
InitiallyEmpty == \A n \in DOMAIN files : files[n].by # << >>

\* the matches m are one link, twice
C11_OneLinkTwice(m) == Len(m) = 2 /\ m[1] = m[2]

\* the run is over; the page bodies together held one link twice, the
\* directory was there and empty, the link resolved to a valid URL, and
\* the GET for it, once made, was answered in full as application/pdf
C11_Scenario ==
    /\ pc = "done"
    /\ dir_exists
    /\ InitiallyEmpty
    /\ is_url_valid(resolved_url)
    /\ dl_last.get => /\ ~dl_last.outcome.raises
                      /\ dl_last.outcome.status_ok
                      /\ dl_last.outcome.content_type = ApplicationPdf
                      /\ ~dl_last.outcome.stream_fails
    /\ C11_OneLinkTwice(extract_pdf_urls(Join(get_data)))

\* C11: when the page bodies together hold one PDF link twice, the link
\* resolves to a valid URL served as application/pdf and the output
\* directory starts empty, the run makes one redirect resolution and one
\* download, leaves exactly one file, named url_to_filename(resolved URL),
\* and exactly one download_pdf call returns True.
C11_OneLinkOneFile ==
    C11_Scenario =>
        /\ resolutions = 1
        /\ downloads = 1
        /\ successes = 1
        /\ dl_last.get /\ dl_last.ret /\ dl_last.url = resolved_url
        /\ DOMAIN files = {url_to_filename(resolved_url)}
        /\ files[url_to_filename(resolved_url)] = WrittenFile(resolved_url, TRUE)

\* two seed pages, each holding the link once, and the run ended with the
\* file of the link
C11_Witness ==
    /\ C11_Scenario
    /\ Len(responses) = 2
    /\ \A i \in 1..2 : responses[i].ok /\ Len(extract_pdf_urls(responses[i].body)) = 1
    /\ successes = 1
    /\ Cardinality(DOMAIN files) = 1

(***************************************************************************)
(* C12: the files a run creates and the calls that return True.            *)
(***************************************************************************)
\* C12 as claimed: download_pdf creates a file only in a call that returns
\* True, and a call that returns False, a failure while streaming the body
\* included, leaves the files of the directory as they were
C12_FileOnlyOnSuccess ==
    /\ dl_last.opened => dl_last.ret
    /\ (dl_last.called /\ ~dl_last.ret) => files = dl_last.before

(***************************************************************************)
(* C13: the output directory is append-only.                               *)
(***************************************************************************)
\* C13: over the download_pdf calls of a run a file that exists is never
\* opened for writing, truncated or rewritten: no file of the directory
\* changes or goes away, a call opens a file only under a name that was
\* not there, and each filename is written at most once.
C13_AppendOnly ==
    /\ [](\A n \in DOMAIN writes : writes[n] <= 1)
    /\ [](dl_last.opened => dl_last.filename \notin DOMAIN dl_last.before)
    /\ [][\A n \in DOMAIN files : n \in DOMAIN files' /\ files'[n] = files[n]]_vars

\* a call for a name the run wrote before: the file is as the earlier call
\* left it, written once
C13_Witness ==
    /\ dl_prev.opened
    /\ dl_last.called
    /\ dl_last.filename \in DOMAIN dl_last.before
    /\ dl_last.before[dl_last.filename].by # << >>
    /\ writes[dl_last.filename] = 1
    /\ files = dl_last.before

(***************************************************************************)
(* Helpers of the properties of url_to_filename.                           *)
(***************************************************************************)
\* the characters of a sanitized stem
NameChars == LowerLetters \cup Digits \cup {"_"}

\* the lowercased basename of the path of the URL u
PathBasename(u) == StrLower(basename(urlparse(u).path))

\* the extension recorded for the basename b: b from its last dot on, when
\* something other than dots comes before that dot
RecordedExt(b) ==
    IF \E k \in 1..(RFind(b, ".") - 1) : b[k] # "." THEN Tail1(b, RFind(b, ".")) ELSE << >>

\* the extension of the name made for the basename b
ExtensionFor(b) == IF RecordedExt(b) = << >> THEN DotPdf ELSE RecordedExt(b)

\* url_to_filename was applied to arg and returned
FilenameReturned == called = "url_to_filename" /\ ~result.raised

\* s holds a lowercase letter or a digit
HasAlnum(s) == \E i \in 1..Len(s) : s[i] \in LowerLetters \cup Digits

(***************************************************************************)
(* C14: the form of the names url_to_filename returns.                     *)
(***************************************************************************)
\* name is a stem of the characters [a-z0-9_] followed by ext
C14_StemThenExt(name, ext) ==
    /\ EndsWith(name, ext)
    /\ \A i \in 1..(Len(name) - Len(ext)) : name[i] \in NameChars

\* C14 as claimed: the name returned is a non-empty stem of [a-z0-9_]
\* followed by the recorded extension, or by .pdf when none was recorded
C14_NonEmptyStem ==
    FilenameReturned =>
        /\ C14_StemThenExt(result.value, ExtensionFor(PathBasename(arg)))
        /\ Len(result.value) > Len(ExtensionFor(PathBasename(arg)))

\* C14: the name returned is a stem of [a-z0-9_] followed by the recorded
\* extension, or by .pdf when none was recorded; the stem is empty exactly
\* when the lowercased basename holds no letter and no digit.
C14_StemAndExtension ==
    FilenameReturned =>
        /\ C14_StemThenExt(result.value, ExtensionFor(PathBasename(arg)))
        /\ (Len(result.value) > Len(ExtensionFor(PathBasename(arg))))
               <=> HasAlnum(PathBasename(arg))

\* a URL with a host and no path: the name is the default extension alone
C14_Witness ==
    /\ FilenameReturned
    /\ arg = <<"h", "t", "t", "p", ":", "/", "/", "h">>
    /\ result.value = DotPdf

(***************************************************************************)
(* C15: the characters of the names url_to_filename returns.               *)
(***************************************************************************)
\* C15 as claimed: the name returned, its extension part included, holds
\* only characters of [a-z0-9_] and the one dot between stem and extension
C15_OnlySafeCharacters ==
    FilenameReturned =>
        \A i \in 1..Len(result.value) :
            \/ result.value[i] \in NameChars
            \/ result.value[i] = "." /\ i = RFind(result.value, ".")

(***************************************************************************)
(* C16: is_url_valid.                                                      *)
(***************************************************************************)
\* the string u parses into a URL with a scheme and a network location
C16_SchemeAndNetloc(u) ==
    /\ ~urlparse(u).raises
    /\ urlparse(u).scheme # << >>
    /\ urlparse(u).netloc # << >>

\* C16: is_url_valid(s) is true exactly when s parses into a URL whose
\* scheme and netloc are both non-empty; it never raises, and returns false
\* for the strings the parser rejects; 'https://example.com/x' is valid,
\* 'not a url' and '' are not.
C16_ValidIffSchemeAndNetloc ==
    called = "is_url_valid" =>
        /\ ~result.raised
        /\ result.value \in BOOLEAN
        /\ result.value <=> C16_SchemeAndNetloc(arg)
        /\ arg = ExampleUrl => result.value
        /\ arg \in {NotAUrl, << >>, UrlNoScheme, UrlBlank} => ~result.value
        /\ urlparse(arg).raises => ~result.value

\* the example of a valid URL was found valid
C16_Witness ==
    /\ called = "is_url_valid"
    /\ arg = ExampleUrl
    /\ result = Returned(TRUE)

(***************************************************************************)
(* C17: url_to_filename and the six steps of the reference.                *)
(***************************************************************************)
\* step 2: the extension is the basename from its last dot on, if any
Ref_Extension(b) == IF RFind(b, ".") > 0 THEN Tail1(b, RFind(b, ".")) ELSE << >>

\* step 3: every character outside [a-z0-9] becomes _
Ref_Replace(b) ==
    [i \in 1..Len(b) |-> IF b[i] \in LowerLetters \cup Digits THEN b[i] ELSE "_"]

\* step 3: consecutive _ become one
RECURSIVE Ref_Collapse(_)
Ref_Collapse(s) ==
    IF Len(s) < 2 THEN s
    ELSE IF s[1] = "_" /\ s[2] = "_" THEN Ref_Collapse(Tail(s))
    ELSE << s[1] >> \o Ref_Collapse(Tail(s))

\* step 3: leading and trailing _ are trimmed
RECURSIVE Ref_Trim(_)
Ref_Trim(s) ==
    IF s = << >> THEN s
    ELSE IF s[1] = "_" THEN Ref_Trim(Tail(s))
    ELSE IF s[Len(s)] = "_" THEN Ref_Trim(SubSeq(s, 1, Len(s) - 1))
    ELSE s

\* step 4: a trailing _pdf is stripped once
Ref_StripPdf(s) ==
    IF Len(s) >= 4 /\ SubSeq(s, Len(s) - 3, Len(s)) = UnderscorePdf
    THEN SubSeq(s, 1, Len(s) - 4)
    ELSE s

\* steps 3 and 4: the stem made of the basename b
Ref_Stem(b) == Ref_StripPdf(Ref_Trim(Ref_Collapse(Ref_Replace(b))))

\* steps 5 and 6: the extension, .pdf if none was recorded, is appended
\* unless the stem ends with .pdf
Ref_Append(stem, ext) ==
    IF EndsWith(stem, DotPdf) THEN stem
    ELSE stem \o (IF ext = << >> THEN DotPdf ELSE ext)

\* the six steps on the URL u
Ref_Filename(u) == Ref_Append(Ref_Stem(PathBasename(u)), Ref_Extension(PathBasename(u)))

\* the basename b has a dot, and nothing but dots before its last dot
OnlyDotsBeforeLastDot(b) ==
    /\ RFind(b, ".") > 0
    /\ \A k \in 1..(RFind(b, ".") - 1) : b[k] = "."

\* C17 as claimed: url_to_filename returns what the six steps give, on
\* every URL, basenames that begin with a dot included
C17_AgreesWithReference ==
    FilenameReturned => result.value = Ref_Filename(arg)

\* C17: url_to_filename returns what the six steps give on every URL whose
\* basename has no dot or has something other than dots before its last
\* dot (basenames that end with a dot or hold several dots included); for
\* a basename with nothing but dots before its last dot no extension is
\* recorded, and the name is the stem followed by .pdf.
C17_AgreesOffLeadingDot ==
    FilenameReturned =>
        IF OnlyDotsBeforeLastDot(PathBasename(arg))
        THEN result.value = Ref_Stem(PathBasename(arg)) \o DotPdf
        ELSE result.value = Ref_Filename(arg)

\* the basename .x: the name is x.pdf, and the six steps give x.x
C17_Witness ==
    /\ FilenameReturned
    /\ PathBasename(arg) = <<".", "x">>
    /\ result.value = <<"x", ".", "p", "d", "f">>
    /\ Ref_Filename(arg) = <<"x", ".", "x">>

(***************************************************************************)
(* C18: URLs whose basename has no extension.                              *)
(***************************************************************************)
\* the URL u has no path segment
NoPathSegment(u) == urlparse(u).path \in {<< >>, <<"/">>}

\* C18 as claimed: url_to_filename never raises; for a URL whose basename
\* has no extension (an empty basename included) it returns a name that
\* ends in .pdf, and for a URL with no path segments exactly .pdf
C18_NeverRaises ==
    called = "url_to_filename" =>
        /\ ~result.raised
        /\ RecordedExt(PathBasename(arg)) = << >> => EndsWith(result.value, DotPdf)
        /\ NoPathSegment(arg) => result.value = DotPdf

(***************************************************************************)
(* C19: basenames that end with a redundant pdf suffix.                    *)
(***************************************************************************)
\* name is the sanitized basename san without its trailing _pdf, followed
\* by .pdf
C19_Stripped(name, san) ==
    IF EndsWith(san, UnderscorePdf)
    THEN name = SubSeq(san, 1, Len(san) - 4) \o DotPdf
    ELSE name = san \o DotPdf

\* name has no __, no _ right before its extension dot, and a stem that
\* neither starts nor ends with _
C19_Tidy(name) ==
    /\ \A i \in 1..(Len(name) - 1) : ~(name[i] = "_" /\ name[i + 1] = "_")
    /\ \A i \in 1..(Len(name) - 1) : ~(name[i] = "_" /\ name[i + 1] = ".")
    /\ name[1] # "_"

\* C19: for every URL whose basename ends with .pdf (x.pdf, x_pdf.pdf,
\* x-pdf.pdf), url_to_filename strips the trailing _pdf of the sanitized
\* stem, and the name returned has no __ sequence, no underscore right
\* before the extension dot, and a stem that neither starts nor ends
\* with _.
C19_RedundantSuffix ==
    (FilenameReturned /\ EndsWith(PathBasename(arg), DotPdf)) =>
        /\ C19_Stripped(result.value, Ref_Trim(Ref_Collapse(Ref_Replace(PathBasename(arg)))))
        /\ C19_Tidy(result.value)
        /\ PathBasename(arg) = <<"x", ".", "p", "d", "f">>
              => result.value = <<"x", ".", "p", "d", "f">>
        /\ PathBasename(arg) \in {<<"x", "_", "p", "d", "f", ".", "p", "d", "f">>,
                                  <<"x", "-", "p", "d", "f", ".", "p", "d", "f">>}
              => result.value = <<"x", "_", "p", "d", "f", ".", "p", "d", "f">>

\* x-pdf.pdf gave x_pdf.pdf
C19_Witness ==
    /\ FilenameReturned
    /\ PathBasename(arg) = <<"x", "-", "p", "d", "f", ".", "p", "d", "f">>
    /\ result.value = <<"x", "_", "p", "d", "f", ".", "p", "d", "f">>

(***************************************************************************)
(* C20: the strings extract_pdf_urls returns.                              *)
(***************************************************************************)
\* m ends with /pdf/?productID= and the k digits that follow it
C20_EndsWithProductId(m, k) ==
    /\ HasAt(m, Len(m) - k - Len(PdfProductId) + 1, PdfProductId)
    /\ \A i \in (Len(m) - k + 1)..Len(m) : m[i] \in Digits

\* m starts with http:// or https://, holds no whitespace and no quote,
\* and ends with /pdf/?productID= and one or more digits
C20_LinkShaped(m) ==
    /\ HasAt(m, 1, Http \o ColonSlashSlash) \/ HasAt(m, 1, Http \o <<"s">> \o ColonSlashSlash)
    /\ \A i \in 1..Len(m) : m[i] \notin Whitespace \cup {"'", "\""}
    /\ \E k \in 1..Len(m) : C20_EndsWithProductId(m, k)

\* the strings ms stand in the text t from position from on, one after
\* the other in this order, each followed by something that is not a digit
RECURSIVE C20_InOrder(_, _, _)
C20_InOrder(t, ms, from) ==
    \/ ms = << >>
    \/ \E p \in from..Len(t) :
          /\ HasAt(t, p, Head(ms))
          /\ p + Len(Head(ms)) <= Len(t) => t[p + Len(Head(ms))] \notin Digits
          /\ C20_InOrder(t, Tail(ms), p + Len(Head(ms)))

\* C20: every string extract_pdf_urls returns starts with http:// or
\* https://, holds no whitespace, single quote or double quote, and ends
\* with /pdf/?productID= followed by one or more digits, the whole run of
\* digits at that place; the matches are returned in the order in which
\* they stand in the text.
C20_MatchesOfThePattern ==
    called = "extract_pdf_urls" =>
        /\ ~result.raised
        /\ \A i \in 1..Len(result.value) : C20_LinkShaped(result.value[i])
        /\ C20_InOrder(arg, result.value, 1)

\* two matches of one text: the first up to the quote, the second with
\* the whole run of digits
C20_Witness ==
    /\ called = "extract_pdf_urls"
    /\ arg = LinkA \o <<"'">> \o LinkA \o <<"2">>
    /\ result.value = << LinkA, LinkA \o <<"2">> >>

(***************************************************************************)
(* C21: three phases, one after the other.                                 *)
(***************************************************************************)
\* how far main is: directory, Phase A, Phase B, Phase C, the end
PhaseRank(p) ==
    CASE p = "mkdir" -> 0
      [] p = "fetch" -> 1
      [] p \in {"extract", "dedup"} -> 2
      [] p \in {"resolve", "validate", "download"} -> 3
      [] OTHER -> 4

\* C21: the run goes through its phases in order and never back: every
\* seed page is fetched before the extraction, extraction and
\* deduplication are over before the first resolution, a link is resolved
\* only when the link before it is resolved, validated and downloaded, and
\* no browser session is left in progress while main goes on.
C21_SequentialPhases ==
    /\ [][PhaseRank(pc') >= PhaseRank(pc)]_vars
    /\ [](PhaseRank(pc) >= 2 => Len(get_data) = Len(remote_api_urls))
    /\ [][PhaseRank(pc) >= 2 => get_data' = get_data]_vars
    /\ [](resolutions > 0 => PhaseRank(pc) >= 3)
    /\ [][PhaseRank(pc) >= 3 => final_pdf_list' = final_pdf_list]_vars
    /\ [][resolutions' # resolutions =>
             /\ pc = "resolve"
             /\ resolutions = link - 1
             /\ downloads <= resolutions]_vars
    /\ [][downloads' # downloads => pc = "download" /\ resolutions = link]_vars
    /\ [](sessions_alive <= 1)
    /\ [](sessions_alive > 0 => pc = "crashed")

\* the second link is about to be resolved, the first was resolved,
\* validated and downloaded
C21_Witness ==
    /\ pc = "resolve"
    /\ link = 2
    /\ resolutions = 1
    /\ downloads = 1
    /\ Len(get_data) = Len(remote_api_urls)

(***************************************************************************)
(* C22: a single attempt for everything.                                   *)
(***************************************************************************)
\* C22 as claimed: in one run every entry of the seed list is fetched once,
\* every candidate link gets exactly one browser session and one
\* navigation, and a resolved URL gets at most one GET
C22_SingleAttempt ==
    /\ Len(responses) <= Len(remote_api_urls)
    /\ sessions_started <= resolutions
    /\ navigations <= sessions_started
    /\ gets <= downloads
    /\ downloads <= resolutions
    /\ resolutions <= Len(final_pdf_list)
    /\ PhaseRank(pc) = 4 =>
          /\ Len(responses) = Len(remote_api_urls)
          /\ sessions_started = Len(final_pdf_list)
          /\ navigations = Len(final_pdf_list)

(***************************************************************************)
(* C23: termination.                                                       *)
(***************************************************************************)
\* C23 as claimed: when every blocking call returns or times out, every
\* run of main reaches the end of Phase C, whatever succeeds and fails on
\* the way
C23_ReachesEndOfPhaseC == <>(pc = "done")

(***************************************************************************)
(* C24: download_pdf when the file is there.                               *)
(***************************************************************************)
\* the file download_pdf would write for resolved_url is in the directory
TargetExists == url_to_filename(resolved_url) \in DOMAIN files

\* C24: when a file named url_to_filename(final_url) is in the output
\* directory, download_pdf issues no network request, leaves that file and
\* every other file as they are, and returns False without failing.
C24_ExistingFileSkipped ==
    /\ []((dl_last.called /\ dl_last.filename \in DOMAIN dl_last.before) =>
             /\ ~dl_last.get
             /\ ~dl_last.ret
             /\ dl_last.outcome = NoOutcome)
    /\ [][(pc = "download" /\ pc' # "crashed" /\ TargetExists) =>
             /\ files' = files
             /\ gets' = gets
             /\ \A n \in DOMAIN writes : writes'[n] = writes[n]
             /\ \A n \in DOMAIN writes' \ DOMAIN writes : writes'[n] = 0
             /\ successes' = successes
             /\ downloads' = downloads + 1
             /\ pc' \in {"resolve", "done"}]_vars

\* the file of an earlier run is there, and the call for it was a skip
C24_Witness ==
    /\ dl_last.called
    /\ dl_last.filename \in DOMAIN dl_last.before
    /\ dl_last.before[dl_last.filename] = EarlierFile
    /\ files = dl_last.before
    /\ gets = 0
    /\ downloads = 1

(***************************************************************************)
(* C25: the output directory cannot be created.                            *)
(***************************************************************************)
\* C25: when the output directory cannot be created, create_directory
\* does not raise and main goes on with Phases A, B and C; every
\* download_pdf call returns False and writes no file, and the loop goes
\* on to the next link.
C25_DirectoryFailureNonFatal ==
    /\ [][pc = "mkdir" => pc' \in {"fetch", "extract"}]_vars
    /\ []((~dir_exists /\ pc # "mkdir") =>
             /\ files = NoFiles
             /\ successes = 0
             /\ \A n \in DOMAIN writes : writes[n] = 0
             /\ dl_last.called => (~dl_last.ret /\ ~dl_last.opened /\ dl_last.get))
    /\ [][(~dir_exists /\ pc = "download") =>
             /\ pc' = NextLink(final_pdf_list, link)
             /\ link' = link + 1
             /\ downloads' = downloads + 1]_vars

\* without the directory the run went through two links to its end; the
\* last GET was answered in full as a PDF, and the call returned False
C25_Witness ==
    /\ ~dir_exists
    /\ pc = "done"
    /\ downloads = 2
    /\ gets = 2
    /\ dl_last.outcome.status_ok
    /\ dl_last.outcome.content_type = ApplicationPdf
    /\ ~dl_last.outcome.stream_fails
    /\ ~dl_last.ret
    /\ files = NoFiles

(***************************************************************************)
(* C26: no match of the link pattern.                                      *)
(***************************************************************************)
\* the run is over and Phase C did nothing: no browser session, no
\* download request, no file written
NothingDone ==
    /\ pc = "done"
    /\ resolutions = 0
    /\ sessions_started = 0
    /\ navigations = 0
    /\ downloads = 0
    /\ gets = 0
    /\ writes = << >>
    /\ files \in InitialDirs

\* the joined page bodies hold a match of the link pattern: the first
\* candidate of Phase C is one, and it stands in them
C26_FirstCandidateMatched ==
    /\ final_pdf_list # << >>
    /\ extract_pdf_urls(Head(final_pdf_list)) = << Head(final_pdf_list) >>
    /\ Contains(Join(get_data), Head(final_pdf_list))

\* C26: when the joined page bodies hold no match of the link pattern
\* (every page fetch having failed is one such case), extract_pdf_urls
\* returns the empty list and the run ends without a browser session, a
\* download request or a file written.
C26_NoMatchNoWork ==
    /\ (pc = "dedup" /\ final_pdf_list # << >>) =>
           extract_pdf_urls(Join(get_data)) # << >>
    /\ (pc \in {"done", "crashed"} /\ ~NothingDone) => C26_FirstCandidateMatched

\* every page fetch failed, and the run ended with nothing done
C26_Witness ==
    /\ NothingDone
    /\ Len(responses) = Len(remote_api_urls)
    /\ \A i \in 1..Len(responses) : ~responses[i].ok
    /\ final_pdf_list = << >>

(***************************************************************************)
(* C27: links and page boundaries.                                         *)
(***************************************************************************)
\* C27 as claimed: every link extracted in Phase B stands in one of the
\* fetched page bodies; no link spans the boundary between two pages
C27_LinksWithinOnePage ==
    pc = "dedup" =>
        \A i \in 1..Len(final_pdf_list) :
            \E j \in 1..Len(get_data) : Contains(get_data[j], final_pdf_list[i])

(***************************************************************************)
(* C28: the filename depends on the last path segment only.                *)
(***************************************************************************)
\* URLs whose last path segment is b, in the case given or in lower case:
\* ftp://u@o:21/d/e.f/<lower b>?q=r.s/t#u.v/w, /<b>;p.q and https://g/<b>#u.v/w
C28_Variants(b) ==
    { <<"f", "t", "p", ":", "/", "/", "u", "@", "o", ":", "2", "1", "/", "d", "/", "e", ".", "f", "/">>
          \o StrLower(b) \o <<"?", "q", "=", "r", ".", "s", "/", "t", "#", "u", ".", "v", "/", "w">>,
      <<"/">> \o b \o <<";", "p", ".", "q">>,
      <<"h", "t", "t", "p", "s", ":", "/", "/", "g", "/">> \o b \o <<"#", "u", ".", "v", "/", "w">> }

\* every variant of u has the lowercased basename of u and the filename f
C28_SameFilename(u, f) ==
    \A v \in C28_Variants(basename(urlparse(u).path)) :
        /\ v # u
        /\ PathBasename(v) = PathBasename(u)
        /\ ~url_to_filename_raises(v)
        /\ url_to_filename(v) = f

\* a URL of the shape .../pdf/?productID=<n>
C28_ProductIdShaped(u) == Contains(u, PdfProductId)

C29_HttpOnly ==
    dl_last.called =>
        urlparse(dl_last.url).scheme \in {Http, Http \o <<"s">>}

\* C29 amended: every URL main passes to download_pdf parses with a
\* non-empty scheme and a non-empty network location; the empty string and
\* about:blank, reported after a failed navigation, never reach the
\* downloader.  The scheme itself is not looked at.
C29_SchemeAndNetlocOnly ==
    /\ pc = "download" =>
           /\ C16_SchemeAndNetloc(resolved_url)
           /\ resolved_url \notin {<< >>, UrlBlank}
    /\ dl_last.called =>
           /\ C16_SchemeAndNetloc(dl_last.url)
           /\ dl_last.url \notin {<< >>, UrlBlank}

\* of two links one was turned away by the validation and the other, which
\* resolved to chrome-error://chromewebdata/, was handed to download_pdf
C29_Witness ==
    /\ pc = "done"
    /\ resolutions = 2
    /\ downloads = 1
    /\ dl_last.called
    /\ dl_last.url = UrlChromeError
    /\ urlparse(dl_last.url).scheme \notin {Http, Http \o <<"s">>}

====
